---- MODULE Spec2Model ----
(***************************************************************************)
(* smallsh: a small shell with the built-ins exit, cd and status; every    *)
(* other command is forked and executed, in the foreground (the shell      *)
(* blocks in waitpid) or, with "&", in the background (reaped by a         *)
(* non-blocking poll once per loop iteration).                             *)
(*                                                                         *)
(* The model follows src/smallsh.c.  src/unnamed/part_000 is the same      *)
(* program with one more call (get_status after the foreground wait); the  *)
(* variable build says which of the two is running.                        *)
(*                                                                         *)
(* A line is modelled as the sequence of tokens strtok(input, " \n")       *)
(* yields for it.  A wait status is the integer the kernel stores:         *)
(* (code % 256) * 256 for a normal exit, signal + 128 * core for a death   *)
(* by signal.  Every token is taken to fit the buffer it is copied to      *)
(* (513 bytes for an argument, 100 for a file name).                       *)
(*                                                                         *)
(* A child is a process of its own: after fork it runs the child branch    *)
(* of handle_fork_exec on its copies of fg and of the file names, and      *)
(* either a call fails and it exits with 1, or execvp replaces it with     *)
(* the program, which ends by itself or by SIGINT.  SIGINT reaches the     *)
(* shell and all its children; what it does to a process is that           *)
(* process's disposition.                                                  *)
(***************************************************************************)
EXTENDS Integers, Sequences, FiniteSets, TLC

(* ------------------------------ bounds -------------------------------- *)

\* children the system lets the shell create; a further fork fails
MaxProcs == 2

(* ------------------------------ inputs -------------------------------- *)

\* "ls" stands for any ordinary word (a program name, an argument, a file
\* name); the others are the words the shell treats specially
Tokens == {"ls", "cd", "status", "exit", "#", "<", ">", "&"}

\* the lines typed at the running shell: a program name or nothing,
\* followed by operators in every arrangement the token loop tells apart,
\* and each built-in and the comment, alone or followed by "&"
Heads == {<<>>, <<"ls">>, <<"#">>, <<"cd">>, <<"cd", "ls">>, <<"status">>, <<"exit">>}
Tails == {<<>>, <<"&">>, <<">">>, <<"<">>, <<">", "ls">>, <<"<", "ls">>,
          <<">", "&">>, <<"&", "ls">>, <<"<", "ls", "&">>}
LaunchHeads == {<<>>, <<"ls">>}
ShortTails == {<<>>, <<"&">>}
Lines ==
    {h \o t : h \in LaunchHeads, t \in Tails} \cup {h \o t : h \in Heads, t \in ShortTails}

\* the tokens the token loop tells apart: two ordinary words and the three
\* operators; a token fits the buffer it is copied to
LineTokens == {"ls", "wc", "<", ">", "&"}

\* longest line, in tokens, of the lines read one at a time
MaxTokens == 5

AllLines == UNION {[1..n -> LineTokens] : n \in 0..MaxTokens}

\* exit codes and signals a child may end with
ExitCodes == {0, 1}
Signals == {2, 11}
\* signals whose default action writes a core file (SIGSEGV), which sets
\* the core flag of the wait status
CoreSignals == {11}

\* what an uninitialised or NULL-sourced string holds when it is not empty
Garbage == "?"

Builds == {"smallsh.c", "part_000"}

(* --------------------------- wait statuses ---------------------------- *)

W_EXITCODE(code) == (code % 256) * 256
W_SIGNALED(sig, core) == sig + (IF core THEN 128 ELSE 0)

TermStatuses ==
    {W_EXITCODE(c) : c \in ExitCodes}
    \cup {W_SIGNALED(s, s \in CoreSignals) : s \in Signals}

WTERMSIG(s) == s % 128
WIFEXITED(s) == WTERMSIG(s) = 0
WEXITSTATUS(s) == (s \div 256) % 256

(* ------------------------------ state --------------------------------- *)

VARIABLES
    build,            \* which source file was compiled
    disposition,      \* what the shell process does on SIGINT
    pc,               \* where the shell is: "prompt", "wait_fg", "poll", "exited", "crashed"
    input,            \* the line buffer, as tokens
    commands,         \* commands[0..i-1]; commands[0] is "" after a reset
    input_filename,
    output_filename,
    fg,               \* 1 foreground, 0 background
    status,           \* run_shell's int status, a wait status
    cwd,              \* the shell's working directory
    procs,            \* the children forked so far, by pid
    fgpid,            \* the pid handle_fork_exec is waiting for, 0 if none
    out,              \* what the shell's last step printed
    exitcode          \* the shell's own exit code, -1 while it runs

vars == <<build, disposition, pc, input, commands, input_filename, output_filename, fg,
          status, cwd, procs, fgpid, out, exitcode>>

Pids == 1..MaxProcs

\* a child: where it is ("none", "forked" while it runs the child branch of
\* handle_fork_exec, "running" once it has exec'd, "zombie", "reaped"), its
\* copies of fg and of the two file names, what it has made of SIGINT and
\* of its input and output, which image it runs, and its wait status;
\* announced and closed count what the shell has printed about it, and
\* termwait says that it ended during the foreground wait of the loop
\* iteration under way
NoProc ==
    [state |-> "none", fg |-> 1, status |-> 0, announced |-> FALSE, closed |-> 0,
     input_filename |-> "", output_filename |-> "",
     sigint |-> "ignore", stdin |-> "inherit", stdout |-> "inherit",
     image |-> "shell", termwait |-> FALSE]

\* what waitpid leaves of a child it has reaped
Reaped(rec) ==
    [rec EXCEPT !.state = "reaped", !.status = 0, !.image = "shell", !.termwait = FALSE]

\* one printed line
Ev(t, n) == [t |-> t, n |-> n]

(* ---------------------------- get_status ------------------------------ *)

get_status(s) ==
    IF WIFEXITED(s)
    THEN <<Ev("The process exited normally", 0), Ev("The exit status was", WEXITSTATUS(s))>>
    ELSE <<Ev("The process was terminated by a signal", s)>>

(* ------------------------- wait_for_children -------------------------- *)

\* the children that have terminated and wait to be reaped
Zombies == {p \in Pids : procs[p].state = "zombie"}

\* the children waitpid still knows: running or terminated, not reaped
Unreaped == {p \in Pids : procs[p].state \in {"forked", "running", "zombie"}}

\* the orders in which waitpid(-1, ..) may hand out the terminated children
Orders(S) == {o \in [1..Cardinality(S) -> S] : \A i, j \in 1..Cardinality(S) : o[i] = o[j] => i = j}

RECURSIVE ReportsOf(_)
ReportsOf(order) ==
    IF order = <<>> THEN <<>>
    ELSE <<Ev("Background process closed", Head(order))>>
         \o get_status(procs[Head(order)].status)
         \o ReportsOf(Tail(order))

\* a poll that stores 0 through the status pointer when it reaps nothing
wait_for_children_ZeroesStatus(st, order) ==
    [status |-> IF order = <<>> THEN 0 ELSE procs[order[Len(order)]].status,
     out    |-> ReportsOf(order),
     procs  |-> [p \in Pids |->
                   IF \E i \in 1..Len(order) : order[i] = p
                   THEN [Reaped(procs[p]) EXCEPT !.closed = @ + 1]
                   ELSE procs[p]]]

\* a poll that reports a terminated child but leaves it outstanding
wait_for_children_KeepsZombie(st, order) ==
    [status |-> IF order = <<>> THEN st ELSE procs[order[Len(order)]].status,
     out    |-> ReportsOf(order),
     procs  |-> [p \in Pids |->
                   IF \E i \in 1..Len(order) : order[i] = p
                   THEN [procs[p] EXCEPT !.closed = @ + 1]
                   ELSE procs[p]]]

\* a poll that calls waitpid once instead of looping
wait_for_children_OnlyFirst(st, order) ==
    [status |-> IF order = <<>> THEN st ELSE procs[order[1]].status,
     out    |-> ReportsOf(IF order = <<>> THEN <<>> ELSE <<order[1]>>),
     procs  |-> [p \in Pids |->
                   IF order # <<>> /\ order[1] = p
                   THEN [Reaped(procs[p]) EXCEPT !.closed = @ + 1]
                   ELSE procs[p]]]

\* waitpid(-1, status, WNOHANG) until it returns 0 or -1: every terminated
\* child is reaped, in the order given, and each one's wait status is
\* stored through the status pointer
wait_for_children(st, order) ==
    [status |-> IF order = <<>> THEN st ELSE procs[order[Len(order)]].status,
     out    |-> ReportsOf(order),
     procs  |-> [p \in Pids |->
                   IF \E i \in 1..Len(order) : order[i] = p
                   THEN [Reaped(procs[p]) EXCEPT !.closed = @ + 1]
                   ELSE procs[p]]]

(* ------------------------------ parsing ------------------------------- *)

NoParse == [commands |-> <<>>, input_filename |-> "", output_filename |-> "", fg |-> 1, nullcopy |-> FALSE]

\* a token loop without the break: "&" sets the flag and the loop goes on
RECURSIVE ParseFrom_NoBreak(_, _, _)
ParseFrom_NoBreak(toks, k, acc) ==
    IF k > Len(toks) THEN acc
    ELSE IF toks[k] = ">"
    THEN IF k + 1 > Len(toks)
         THEN [acc EXCEPT !.output_filename = Garbage, !.nullcopy = TRUE]
         ELSE ParseFrom_NoBreak(toks, k + 2, [acc EXCEPT !.output_filename = toks[k + 1]])
    ELSE IF toks[k] = "<"
    THEN IF k + 1 > Len(toks)
         THEN [acc EXCEPT !.input_filename = Garbage, !.nullcopy = TRUE]
         ELSE ParseFrom_NoBreak(toks, k + 2, [acc EXCEPT !.input_filename = toks[k + 1]])
    ELSE IF toks[k] = "&"
    THEN ParseFrom_NoBreak(toks, k + 1, [acc EXCEPT !.fg = 0])
    ELSE ParseFrom_NoBreak(toks, k + 1, [acc EXCEPT !.commands = Append(@, toks[k])])

\* a token loop that copies the token after ">" and after "<" as an
\* argument as well
RECURSIVE ParseFrom_KeepsFileAsArg(_, _, _)
ParseFrom_KeepsFileAsArg(toks, k, acc) ==
    IF k > Len(toks) THEN acc
    ELSE IF toks[k] = ">"
    THEN IF k + 1 > Len(toks)
         THEN [acc EXCEPT !.output_filename = Garbage, !.nullcopy = TRUE]
         ELSE ParseFrom_KeepsFileAsArg(toks, k + 1, [acc EXCEPT !.output_filename = toks[k + 1]])
    ELSE IF toks[k] = "<"
    THEN IF k + 1 > Len(toks)
         THEN [acc EXCEPT !.input_filename = Garbage, !.nullcopy = TRUE]
         ELSE ParseFrom_KeepsFileAsArg(toks, k + 1, [acc EXCEPT !.input_filename = toks[k + 1]])
    ELSE IF toks[k] = "&"
    THEN [acc EXCEPT !.fg = 0]
    ELSE ParseFrom_KeepsFileAsArg(toks, k + 1, [acc EXCEPT !.commands = Append(@, toks[k])])

\* the token loop of run_shell, from token k on
RECURSIVE ParseFrom(_, _, _)
ParseFrom(toks, k, acc) ==
    IF k > Len(toks) THEN acc
    ELSE IF toks[k] = ">"
    THEN IF k + 1 > Len(toks)
         THEN [acc EXCEPT !.output_filename = Garbage, !.nullcopy = TRUE]
         ELSE ParseFrom(toks, k + 2, [acc EXCEPT !.output_filename = toks[k + 1]])
    ELSE IF toks[k] = "<"
    THEN IF k + 1 > Len(toks)
         THEN [acc EXCEPT !.input_filename = Garbage, !.nullcopy = TRUE]
         ELSE ParseFrom(toks, k + 2, [acc EXCEPT !.input_filename = toks[k + 1]])
    ELSE IF toks[k] = "&"
    THEN [acc EXCEPT !.fg = 0]
    ELSE ParseFrom(toks, k + 1, [acc EXCEPT !.commands = Append(@, toks[k])])

Parse(toks) == ParseFrom(toks, 1, NoParse)

\* *(commands[0]): the first character of a token
FirstChar(tok) == IF tok = "#" THEN "#" ELSE IF tok = "" THEN "" ELSE "other"

\* if (i != 0) commands[i] = NULL; with i = 0 the array keeps what it held
CommandsAfter(p) == IF Len(p.commands) # 0 THEN p.commands ELSE commands

\* the if / else-if chain of run_shell on commands[0]
Dispatch(c0) ==
    IF c0 = "" THEN "nothing"
    ELSE IF FirstChar(c0) = "#" THEN "nothing"
    ELSE IF c0 = "cd" THEN "cd"
    ELSE IF c0 = "status" THEN "status"
    ELSE IF c0 = "exit" THEN "exit"
    ELSE "launch"

(* ------------------------------- Init --------------------------------- *)

\* create_char_array leaves the strings uninitialised: commands[0] holds ""
\* or anything else until the first reset_command_array
Init ==
    /\ build \in Builds
    /\ disposition = "ignore"
    /\ pc = "prompt"
    /\ input = <<>>
    /\ commands \in {<<"">>, <<Garbage>>}
    /\ input_filename = ""
    /\ output_filename = ""
    /\ fg = 1
    /\ status = 0
    /\ cwd = "start"
    /\ procs = [p \in Pids |-> NoProc]
    /\ fgpid = 0
    /\ out = <<Ev(": ", 0)>>
    /\ exitcode = -1

(* --------------------------- the shell loop --------------------------- *)

\* prompt() returned line l and the token loop ran to its end (or stopped
\* at "&"); the parse results are stored in run_shell's variables
Read(l) ==
    /\ pc = "prompt"
    /\ input' = l
    /\ commands' = CommandsAfter(Parse(l))
    /\ input_filename' = Parse(l).input_filename
    /\ output_filename' = Parse(l).output_filename
    /\ fg' = Parse(l).fg

\* strcpy(.., tok) with tok = NULL: the copy may fault, or copy whatever
\* bytes it finds
ReadNullCopyCrash(l) ==
    /\ pc = "prompt"
    /\ Parse(l).nullcopy
    /\ input' = l
    /\ pc' = "crashed"
    /\ out' = <<>>
    /\ UNCHANGED <<build, disposition, commands, input_filename, output_filename, fg,
                   status, cwd, procs, fgpid, exitcode>>

ReadNothing(l) ==
    /\ Read(l)
    /\ Dispatch(commands'[1]) = "nothing"
    /\ pc' = "poll"
    /\ out' = <<>>
    /\ UNCHANGED <<build, disposition, status, cwd, procs, fgpid, exitcode>>

\* the directories chdir can enter
Dirs == {"ls"}

change_directory(cmds, dir) ==
    IF Len(cmds) >= 2
    THEN IF cmds[2] \in Dirs THEN {dir, cmds[2]} ELSE {dir}
    ELSE {"home"}

ReadCd(l) ==
    /\ Read(l)
    /\ Dispatch(commands'[1]) = "cd"
    /\ cwd' \in change_directory(commands', cwd)
    /\ pc' = "poll"
    /\ out' = <<>>
    /\ UNCHANGED <<build, disposition, status, procs, fgpid, exitcode>>

ReadStatus(l) ==
    /\ Read(l)
    /\ Dispatch(commands'[1]) = "status"
    /\ out' = get_status(status)
    /\ pc' = "poll"
    /\ UNCHANGED <<build, disposition, status, cwd, procs, fgpid, exitcode>>

\* exit(n) leaves n & 0377 as the exit code of the process
ExitCodeOf(n) == n % 256

\* wait_for_children(status); exit(*status);
exit_shell(st, printed) ==
    \E order \in Orders(Zombies) :
        LET r == wait_for_children(st, order)
        IN  /\ status' = r.status
            /\ procs' = r.procs
            /\ out' = printed \o r.out
            /\ exitcode' = ExitCodeOf(r.status)
            /\ pc' = "exited"

ReadExit(l) ==
    /\ Read(l)
    /\ Dispatch(commands'[1]) = "exit"
    /\ exit_shell(status, <<>>)
    /\ UNCHANGED <<build, disposition, cwd, fgpid>>

\* the pid fork returns: the next one not used yet
FreePids == {p \in Pids : procs[p].state = "none"}
NewPid == CHOOSE p \in FreePids : \A q \in FreePids : p <= q

\* a parent branch that never waits
ParentNext_NoWait(f) == "poll"

\* a parent branch that waits for background children too
ParentNext_AlwaysWait(f) == "wait_fg"

\* the parent branch of handle_fork_exec: where the shell goes next
ParentNext(f) == IF f = 1 THEN "wait_fg" ELSE "poll"

\* the text of the printf in the background branch
BackgroundIdText ==
    IF build = "part_000" THEN "Background process id number" ELSE "background process id number"

\* the parent branch of handle_fork_exec: what it prints
ParentPrints(f, pid) ==
    IF f = 1 THEN <<>> ELSE <<Ev(BackgroundIdText, pid)>>

\* handle_fork_exec, fork returned pid > 0
ReadLaunch(l) ==
    /\ Read(l)
    /\ Dispatch(commands'[1]) = "launch"
    /\ FreePids # {}
    /\ procs' = [procs EXCEPT ![NewPid] =
                    [NoProc EXCEPT !.state = "forked", !.fg = fg',
                                   !.input_filename = input_filename',
                                   !.output_filename = output_filename',
                                   !.announced = ParentPrints(fg', NewPid) # <<>>]]
    /\ pc' = ParentNext(fg')
    /\ fgpid' = IF ParentNext(fg') = "wait_fg" THEN NewPid ELSE 0
    /\ out' = ParentPrints(fg', NewPid)
    /\ UNCHANGED <<build, disposition, status, cwd, exitcode>>

\* handle_fork_exec, fork returned pid < 0
ReadForkFail(l) ==
    /\ Read(l)
    /\ Dispatch(commands'[1]) = "launch"
    /\ exit_shell(1, <<Ev("error in fork", 0)>>)
    /\ UNCHANGED <<build, disposition, cwd, fgpid>>

\* prompt(): fgets returned NULL
Eof ==
    /\ pc = "prompt"
    /\ pc' = "exited"
    /\ exitcode' = 0
    /\ out' = <<>>
    /\ UNCHANGED <<build, disposition, input, commands, input_filename, output_filename, fg,
                   status, cwd, procs, fgpid>>

\* what follows waitpid(pid, status, 0) in the parent branch
AfterForegroundWait(st) == IF build = "part_000" THEN get_status(st) ELSE <<>>

\* a blocking wait for any child, as waitpid(-1, status, 0) would be
WaitedFor_Any(pid) == Pids

\* the children whose end waitpid(pid, status, 0) returns for
WaitedFor(pid) == {pid}

\* waitpid(pid, status, 0) returns: the foreground child has terminated
ForegroundWait ==
    /\ pc = "wait_fg"
    /\ \E p \in WaitedFor(fgpid) :
          /\ procs[p].state = "zombie"
          /\ status' = procs[p].status
          /\ procs' = [procs EXCEPT ![p] = Reaped(@)]
          /\ out' = AfterForegroundWait(procs[p].status)
    /\ fgpid' = 0
    /\ pc' = "poll"
    /\ UNCHANGED <<build, disposition, input, commands, input_filename, output_filename, fg,
                   cwd, exitcode>>

\* the end of a loop iteration: the poll, the resets, fg = 1 and the next
\* prompt
Poll ==
    /\ pc = "poll"
    /\ \E order \in Orders(Zombies) :
          LET r == wait_for_children(status, order)
          IN  /\ status' = r.status
              /\ procs' = [p \in Pids |-> [r.procs[p] EXCEPT !.termwait = FALSE]]
              /\ out' = r.out \o <<Ev(": ", 0)>>
    /\ input' = <<>>
    /\ input_filename' = ""
    /\ output_filename' = ""
    /\ commands' = <<"">>
    /\ fg' = 1
    /\ pc' = "prompt"
    /\ UNCHANGED <<build, disposition, cwd, fgpid, exitcode>>

(* ---------------------------- the children ---------------------------- *)

\* the child branch of handle_fork_exec, up to execvp

SIGINT == 2

\* a child branch that restores the default for every child
ChildDisposition_AlwaysDefault(f) == "default"

\* SIGINT in the child: the default is restored in a foreground child, a
\* background child keeps the SIG_IGN it inherits
ChildDisposition(f) == IF f = 1 THEN "default" ELSE "ignore"

\* to_open: the file the child opens as its input, "inherit" for NULL
InputSource(f, infile) ==
    IF f = 1
    THEN IF infile # "" THEN infile ELSE "inherit"
    ELSE "/dev/null"

\* the file the child opens as its output, "inherit" for none
OutputTarget(outfile) == IF outfile # "" THEN outfile ELSE "inherit"

\* the calls of the child branch that can fail for a given child
Failures(rec) ==
    (IF InputSource(rec.fg, rec.input_filename) # "inherit"
     THEN {"open input", "dup2 input"} ELSE {})
    \cup (IF OutputTarget(rec.output_filename) # "inherit"
          THEN {"open output", "dup2 output"} ELSE {})
    \cup {"execvp"}

\* a child branch that leaves handle_fork_exec when a call fails
AfterFailure_Returns(rec) == [rec EXCEPT !.state = "looping"]

\* a child branch whose failure exits with 0
AfterFailure_ExitsZero(rec) ==
    [rec EXCEPT !.state = "zombie", !.status = W_EXITCODE(0),
                !.input_filename = "", !.output_filename = ""]

\* the message to stderr and exit(1) that follow every failed call
AfterFailure(rec) ==
    [rec EXCEPT !.state = "zombie", !.status = W_EXITCODE(1),
                !.input_filename = "", !.output_filename = ""]

\* the child has ended while the shell waits for another child
EndsDuringWait(p) == pc = "wait_fg" /\ p # fgpid

\* open, dup2 or execvp fails in the child
ChildFail(p, call) ==
    /\ pc \notin {"exited", "crashed"}
    /\ procs[p].state = "forked"
    /\ call \in Failures(procs[p])
    /\ procs' = [procs EXCEPT ![p] = [AfterFailure(@) EXCEPT !.termwait = EndsDuringWait(p)]]
    /\ UNCHANGED <<build, disposition, pc, input, commands, input_filename, output_filename,
                   fg, status, cwd, fgpid, out, exitcode>>

\* the process once execvp has succeeded: the program, with the
\* disposition and the redirections the child branch has set
AfterExec(rec) ==
    [rec EXCEPT !.state = "running", !.image = "program",
                !.sigint = ChildDisposition(rec.fg),
                !.stdin = InputSource(rec.fg, rec.input_filename),
                !.stdout = OutputTarget(rec.output_filename),
                !.input_filename = "", !.output_filename = ""]

\* the child has set its disposition and its redirections and execvp
\* succeeds
ChildExec(p) ==
    /\ pc \notin {"exited", "crashed"}
    /\ procs[p].state = "forked"
    /\ procs' = [procs EXCEPT ![p] = AfterExec(@)]
    /\ UNCHANGED <<build, disposition, pc, input, commands, input_filename, output_filename,
                   fg, status, cwd, fgpid, out, exitcode>>

\* what is left of a process that has ended with wait status s
Ended(rec, s) ==
    [rec EXCEPT !.state = "zombie", !.status = s,
                !.sigint = "ignore", !.stdin = "inherit", !.stdout = "inherit"]

\* the wait statuses a program ends with on its own: an exit or a fault
SelfStatuses == TermStatuses \ {W_SIGNALED(SIGINT, FALSE)}

\* the user types the interrupt character: SIGINT goes to the shell and to
\* every child (they share the process group); a process with the default
\* disposition dies of it
Interrupt ==
    /\ pc \notin {"exited", "crashed"}
    /\ \/ disposition = "default"
       \/ \E p \in Pids : procs[p].state = "running" /\ procs[p].sigint = "default"
    /\ procs' = [p \in Pids |->
                   IF procs[p].state = "running" /\ procs[p].sigint = "default"
                   THEN [Ended(procs[p], W_SIGNALED(SIGINT, FALSE)) EXCEPT !.termwait = EndsDuringWait(p)]
                   ELSE procs[p]]
    /\ pc' = IF disposition = "default" THEN "crashed" ELSE pc
    /\ UNCHANGED <<build, disposition, input, commands, input_filename, output_filename,
                   fg, status, cwd, fgpid, out, exitcode>>

\* a running program ends, by exit or by a fault
ChildTerminate(p, s) ==
    /\ pc \notin {"exited", "crashed"}
    /\ procs[p].state = "running"
    /\ procs' = [procs EXCEPT ![p] = [Ended(@, s) EXCEPT !.termwait = EndsDuringWait(p)]]
    /\ UNCHANGED <<build, disposition, pc, input, commands, input_filename, output_filename,
                   fg, status, cwd, fgpid, out, exitcode>>

Next ==
    \/ \E l \in Lines : ReadNothing(l)
    \/ \E l \in Lines : ReadCd(l)
    \/ \E l \in Lines : ReadStatus(l)
    \/ \E l \in Lines : ReadExit(l)
    \/ \E l \in Lines : ReadLaunch(l)
    \/ \E l \in Lines : ReadForkFail(l)
    \/ \E l \in Lines : ReadNullCopyCrash(l)
    \/ Eof
    \/ ForegroundWait
    \/ Poll
    \/ \E p \in Pids, call \in {"open input", "dup2 input", "open output", "dup2 output", "execvp"} :
          ChildFail(p, call)
    \/ \E p \in Pids : ChildExec(p)
    \/ Interrupt
    \/ \E p \in Pids, s \in SelfStatuses : ChildTerminate(p, s)

Spec == Init /\ [][Next]_vars

(* ------------------------------ claims -------------------------------- *)

HasAmp(l) == \E i \in 1..Len(l) : l[i] = "&"

\* the step forks child p
Launched(p) == procs[p].state = "none" /\ procs'[p].state # "none"

\* C1: a line without "&" that launches a program launches it in the
\* foreground and the shell waits for it; whenever the prompt is shown, no
\* foreground child is still running or unreaped.
C1_ForegroundBlocks ==
    [][/\ \A p \in Pids :
            (Launched(p) /\ ~HasAmp(input'))
                => (procs'[p].fg = 1 /\ pc' = "wait_fg" /\ fgpid' = p)
       /\ pc' = "prompt"
            => \A p \in Pids : procs'[p].fg = 1 => procs'[p].state \in {"none", "reaped"}
      ]_vars

\* a foreground child has come and gone and the prompt is back
C1_Witness ==
    /\ pc = "prompt"
    /\ \E p \in Pids : procs[p].fg = 1 /\ procs[p].state = "reaped"

IsOperator(tok) == tok \in {"<", ">", "&"}

\* the line ends in "&" and has an ordinary token before it
EndsInAmpAfterWord(l) ==
    /\ Len(l) >= 2
    /\ l[Len(l)] = "&"
    /\ \E i \in 1..(Len(l) - 1) : ~IsOperator(l[i])

\* the step launched p in the background: its pid is printed at once and
\* the shell goes on to the poll and the prompt instead of waiting
BackgroundLaunch(p) ==
    /\ procs'[p].fg = 0
    /\ procs'[p].state = "forked"
    /\ out' = <<Ev(BackgroundIdText, p)>>
    /\ pc' = "poll"

\* C2 as stated: every line ending in "&" after an ordinary token, if it
\* launches a process, launches it in the background.
C2_Original ==
    [][\A p \in Pids :
          (Launched(p) /\ EndsInAmpAfterWord(input')) => BackgroundLaunch(p)
      ]_vars

\* C2 amended: a line ending in "&" after an ordinary token, whose "&" does
\* not directly follow "<" or ">" (where it would be taken as the file
\* name), launches in the background: the pid is reported at once and the
\* shell does not wait; the shell only ever blocks on a foreground child.
C2_BackgroundReturns ==
    [][/\ \A p \in Pids :
            (/\ Launched(p)
             /\ EndsInAmpAfterWord(input')
             /\ input'[Len(input') - 1] \notin {"<", ">"})
                => BackgroundLaunch(p)
       /\ pc' = "wait_fg" => procs'[fgpid'].fg = 1
      ]_vars

\* the prompt is back while an announced background child still runs
C2_Witness ==
    /\ pc = "prompt"
    /\ \E p \in Pids : procs[p].fg = 0 /\ procs[p].state = "running" /\ procs[p].announced

\* C3: when the shell has terminated, no process it launched is still
\* running or still unreaped.
C3_ExitDrainsBackground ==
    pc = "exited" => Unreaped = {}

ForkFailed == out # <<>> /\ out[1] = Ev("error in fork", 0)

\* C4: a shell that terminated because fork failed has a non-zero exit
\* code.
C4_ForkFailureNonZero ==
    (pc = "exited" /\ ForkFailed) => exitcode # 0

\* C5: what the status built-in reports (the stored status) changes only
\* when a foreground wait returns; no other step of the running shell
\* changes it.
C5_StatusIsLastForeground ==
    [][(pc # "wait_fg" /\ pc' # "exited") => status' = status]_vars

(* ---- the status built-in over every wait status (a pure function) ---- *)

\* every exit code and every signal; the signals whose default action
\* dumps core are the ones that can set the core flag
AllExitCodes == 0..255
AllSignals == 1..31
AllCoreSignals == {3, 4, 5, 6, 7, 8, 11, 24, 25, 31}

AllWaitStatuses ==
    {W_EXITCODE(c) : c \in AllExitCodes}
    \cup {W_SIGNALED(sg, FALSE) : sg \in AllSignals}
    \cup {W_SIGNALED(sg, TRUE) : sg \in AllCoreSignals}

\* the shell at its prompt after a foreground child ended with any status
InitStatus ==
    /\ build \in Builds
    /\ disposition = "ignore"
    /\ pc = "prompt"
    /\ input = <<>>
    /\ commands = <<"">>
    /\ input_filename = ""
    /\ output_filename = ""
    /\ fg = 1
    /\ status \in AllWaitStatuses
    /\ cwd = "start"
    /\ procs = [p \in Pids |-> IF p = 1 THEN [NoProc EXCEPT !.state = "reaped"] ELSE NoProc]
    /\ fgpid = 0
    /\ out = <<Ev(": ", 0)>>
    /\ exitcode = -1

NextStatus ==
    \/ ReadStatus(<<"status">>)
    \/ Poll

SpecStatus == InitStatus /\ [][NextStatus]_vars

\* the status built-in has just printed
StatusShown == pc = "poll" /\ commands = <<"status">>

\* C6: for a normal exit with code N the status is rendered as "exited
\* normally" with N; for a death by signal sg, with or without a core dump,
\* it is rendered as "terminated by a signal" with sg.
C6_RenderStatus ==
    StatusShown =>
        /\ \A N \in AllExitCodes :
              status = W_EXITCODE(N)
                  => out = <<Ev("The process exited normally", 0), Ev("The exit status was", N)>>
        /\ \A sg \in AllSignals, core \in BOOLEAN :
              status = W_SIGNALED(sg, core)
                  => out = <<Ev("The process was terminated by a signal", sg)>>

(* ------------------------- the background poll ------------------------ *)

\* the step is the poll at the end of a loop iteration
PollStep == pc = "poll" /\ pc' = "prompt"

\* C7: a poll with no child outstanding prints nothing but the next prompt
\* and leaves the stored status and the children as they were; the poll
\* function applied to such a state, and again to its result, returns the
\* state unchanged with an empty report.
C7_PollNoChildrenIsNoOp ==
    [][Unreaped = {} =>
         /\ PollStep => (status' = status /\ procs' = procs /\ out' = <<Ev(": ", 0)>>)
         /\ \A order \in Orders(Zombies) :
               wait_for_children(status, order) = [status |-> status, out |-> <<>>, procs |-> procs]
      ]_vars

\* a poll has run with nothing outstanding after a foreground child left a
\* status other than 0
C7_Witness ==
    /\ pc = "prompt"
    /\ Unreaped = {}
    /\ status # 0
    /\ out = <<Ev(": ", 0)>>

\* the positions of out at which child p is reported closed
ClosedAt(o, p) == {i \in 1..Len(o) : o[i] = Ev("Background process closed", p)}

\* the step is one of the shell's own (a child's step leaves pc alone)
ShellStep == pc' # pc

\* C8: the poll is never blocked; a child it reports had already
\* terminated, was launched in the background with that pid announced, is
\* reported once, with the rendering of its own wait status, and is no
\* longer outstanding afterwards.
C8_PollReportsTerminatedOnce ==
    /\ [](pc = "poll" => ENABLED Poll)
    /\ [][\A p \in Pids :
             (ShellStep /\ ClosedAt(out', p) # {}) =>
                /\ procs[p].state = "zombie"
                /\ procs[p].fg = 0
                /\ procs[p].announced
                /\ Cardinality(ClosedAt(out', p)) = 1
                /\ \A i \in ClosedAt(out', p) :
                      SubSeq(out', i + 1, i + Len(get_status(procs[p].status)))
                          = get_status(procs[p].status)
                /\ procs'[p].state = "reaped"
                /\ procs'[p].closed = 1
         ]_vars

\* a poll has reported a background child while another one still runs
C8_Witness ==
    /\ pc = "prompt"
    /\ \E p, q \in Pids :
          /\ ClosedAt(out, p) # {}
          /\ procs[p].state = "reaped"
          /\ procs[q].state = "running"

(* ------------------------------ the parser ---------------------------- *)

\* the last token is "<" or ">"
TrailingRedirect(l) == Len(l) >= 1 /\ l[Len(l)] \in {"<", ">"}

\* the step reads a line (at the prompt the buffer is empty)
ReadStep == pc = "prompt" /\ pc' # "prompt"

\* C9: a line whose last token is "<" or ">" gets a diagnostic, launches
\* nothing, uses no garbage path, and the shell goes on to the next prompt.
C9_TrailingRedirectRejected ==
    [][(ReadStep /\ TrailingRedirect(input')) =>
          /\ pc' = "poll"
          /\ out' # <<>>
          /\ procs' = procs
          /\ input_filename' # Garbage
          /\ output_filename' # Garbage
      ]_vars

\* the line is empty or its first token starts with "#"
EmptyOrComment(l) == l = <<>> \/ FirstChar(l[1]) = "#"

\* C10: an empty line or a comment line never reaches the launcher: no
\* child is forked and no fork is attempted for it.
C10_EmptyOrCommentNeverLaunches ==
    [][(ReadStep /\ EmptyOrComment(input')) =>
          /\ \A p \in Pids : ~Launched(p)
          /\ ~ForkFailed'
      ]_vars

(* ----------------- one line, every line up to MaxTokens ---------------- *)

\* the first iteration of the loop of run_shell on any line of AllLines,
\* up to the call of wait_for_children
NextLine ==
    /\ pc = "prompt"
    /\ \E l \in AllLines :
          \/ ReadNullCopyCrash(l)
          \/ ReadNothing(l)
          \/ ReadLaunch(l)
          \/ ReadForkFail(l)

SpecLine == Init /\ [][NextLine]_vars

\* the token loop has run on the line held in input
Parsed == pc \in {"poll", "wait_fg", "exited"}

\* the positions of line l that hold an argument: an ordinary token that
\* does not follow "<" or ">"
ArgPositions(l) ==
    {k \in 1..Len(l) : ~IsOperator(l[k]) /\ (k = 1 \/ l[k - 1] \notin {"<", ">"})}

\* s is the sequence of the tokens of l at the positions P, in their order
IsSubSeqAt(s, l, P) ==
    /\ Len(s) = Cardinality(P)
    /\ \A k \in P : s[Cardinality({m \in P : m <= k})] = l[k]

\* the file named after operator op on line l, "" when l has no op
FileAfter(l, op) ==
    IF \E k \in 1..Len(l) : l[k] = op
    THEN l[1 + CHOOSE k \in 1..Len(l) : l[k] = op]
    ELSE ""

\* l is ordinary tokens plus "< f" and/or "> g", each at most once and in
\* any place, f and g ordinary, and no "&"
RedirectLine(l) ==
    /\ ~HasAmp(l)
    /\ ArgPositions(l) # {}
    /\ \A k \in 1..Len(l) : l[k] \in {"<", ">"} => k < Len(l) /\ ~IsOperator(l[k + 1])
    /\ \A op \in {"<", ">"} : Cardinality({k \in 1..Len(l) : l[k] = op}) <= 1
    /\ \E k \in 1..Len(l) : l[k] \in {"<", ">"}

\* C11: a line of ordinary tokens plus "< f" and/or "> g", in either order
\* and without "&", is parsed into the ordinary tokens in their order as
\* the arguments, f as the input file, g as the output file, and the
\* foreground flag.
C11_ParseRedirects ==
    (Parsed /\ RedirectLine(input)) =>
        /\ IsSubSeqAt(commands, input, ArgPositions(input))
        /\ input_filename = FileAfter(input, "<")
        /\ output_filename = FileAfter(input, ">")
        /\ fg = 1

\* "wc < ls > wc" and "wc > wc < ls" have been parsed
C11_Witness ==
    /\ Parsed
    /\ input \in {<<"wc", "<", "ls", ">", "wc">>, <<"wc", ">", "wc", "<", "ls">>}
    /\ commands = <<"wc">>
    /\ input_filename = "ls"
    /\ output_filename = "wc"

\* the position of the first "&" of line l
FirstAmp(l) == CHOOSE k \in 1..Len(l) : l[k] = "&" /\ \A m \in 1..(k - 1) : l[m] # "&"

\* the tokens of l before its first "&"
BeforeAmp(l) == SubSeq(l, 1, FirstAmp(l) - 1)

\* what the token loop leaves when it has collected the tokens of prefix
\* and nothing more: with no argument collected the array keeps what it
\* held, which is "" or what the first allocation left there
CollectedFrom(prefix) ==
    /\ Len(Parse(prefix).commands) # 0 => commands = Parse(prefix).commands
    /\ Len(Parse(prefix).commands) = 0 => commands \in {<<"">>, <<Garbage>>}
    /\ input_filename = Parse(prefix).input_filename
    /\ output_filename = Parse(prefix).output_filename
    /\ RedirectLine(prefix) =>
          /\ IsSubSeqAt(commands, prefix, ArgPositions(prefix))
          /\ input_filename = FileAfter(prefix, "<")
          /\ output_filename = FileAfter(prefix, ">")

FailedChild(p) == procs[p].state = "zombie" /\ procs[p].image = "shell"

\* C12: a failure in the spawned process (opening or redirecting a file,
\* executing the program) ends that child alone, with exit status 1: the
\* shell goes on as it was, and whoever reaps the child sees a normal exit
\* with code 1.
C12_ChildFailureExitsOne ==
    [][\A p \in Pids :
          /\ (procs[p].state = "forked" /\ procs'[p].state \notin {"forked", "running"}) =>
                /\ procs'[p].state = "zombie"
                /\ procs'[p].status = W_EXITCODE(1)
                /\ \A q \in Pids \ {p} : procs'[q] = procs[q]
                /\ UNCHANGED <<disposition, pc, input, commands, input_filename,
                               output_filename, fg, status, cwd, fgpid, out, exitcode>>
          /\ (FailedChild(p) /\ procs'[p].state # "zombie") =>
                /\ procs'[p].state = "reaped"
                /\ pc = "wait_fg" =>
                      /\ WIFEXITED(status') /\ WEXITSTATUS(status') = 1
                      /\ pc' = "poll"
                /\ pc # "wait_fg" =>
                      \A i \in ClosedAt(out', p) :
                          SubSeq(out', i + 1, i + 2) =
                              <<Ev("The process exited normally", 0),
                                Ev("The exit status was", 1)>>
      ]_vars

\* a background child has failed before its exec and the shell is at the
\* prompt
C12_Witness ==
    /\ pc = "prompt"
    /\ \E p \in Pids : FailedChild(p) /\ procs[p].fg = 0

\* C13: the interrupt ends foreground children only: the shell ignores it
\* from start to end, whatever it launches; a background child runs with it
\* ignored; a foreground child has the default back before its program
\* runs.
C13_InterruptOnlyForeground ==
    /\ disposition = "ignore"
    /\ \A p \in Pids :
          /\ procs[p].state = "forked" => procs[p].sigint = "ignore"
          /\ (procs[p].state = "running" /\ procs[p].fg = 0) => procs[p].sigint = "ignore"
          /\ (procs[p].state = "running" /\ procs[p].fg = 1) => procs[p].sigint = "default"
          /\ (procs[p].state = "zombie" /\ procs[p].status = W_SIGNALED(SIGINT, FALSE)) =>
                procs[p].fg = 1

\* the interrupt has ended the foreground child; the shell waits for it
\* and a background child runs on
C13_Witness ==
    /\ pc = "wait_fg"
    /\ procs[fgpid].state = "zombie"
    /\ procs[fgpid].status = W_SIGNALED(SIGINT, FALSE)
    /\ \E q \in Pids : procs[q].state = "running" /\ procs[q].fg = 0

\* C14: the input of a child is the named file when it is a foreground
\* child with an input redirect, the null device when it is a background
\* child without one, and the shell's own input in every other case.
C14_InputSource ==
    [][\A p \in Pids :
          (procs[p].state = "forked" /\ procs'[p].state = "running") =>
              procs'[p].stdin =
                  IF procs[p].fg = 1 /\ procs[p].input_filename # ""
                  THEN procs[p].input_filename
                  ELSE IF procs[p].fg = 0 /\ procs[p].input_filename = ""
                  THEN "/dev/null"
                  ELSE "inherit"
      ]_vars

\* C15: when the exit built-in ends the shell, the shell's exit code is the
\* exit code of the process whose status was recorded last.
C15_ExitCodeIsLastStatus ==
    (pc = "exited" /\ commands = <<"exit">> /\ WIFEXITED(status)) =>
        exitcode = WEXITSTATUS(status)
(* ----------------------- the foreground wait -------------------------- *)

\* p is a background child that has ended during the foreground wait of
\* the loop iteration under way and is still outstanding
EndedInThisWait(p) ==
    procs[p].state = "zombie" /\ procs[p].fg = 0 /\ procs[p].termwait

\* while the shell is blocked in the foreground wait, its step reports no
\* background child, consumes the end of the foreground child alone and
\* leaves every other child as it is
WaitConsumesForegroundOnly ==
    (pc = "wait_fg" /\ ShellStep) =>
        /\ \A p \in Pids : ClosedAt(out', p) = {}
        /\ \A p \in Pids \ {fgpid} : procs'[p] = procs[p]
        /\ procs[fgpid].state = "zombie"
        /\ procs'[fgpid].state = "reaped"
        /\ status' = procs[fgpid].status

\* C16 as stated: the foreground wait reports no background child and
\* consumes the foreground child alone; a background child that ends during
\* the wait is not reported before the poll of the next loop iteration.
C16_Original ==
    [][/\ WaitConsumesForegroundOnly
       /\ \A p \in Pids : EndedInThisWait(p) => ClosedAt(out', p) = {}
      ]_vars

\* C16: the foreground wait reports no background child and consumes the
\* foreground child alone; a background child that ends during the wait
\* stays outstanding until the poll that follows the wait, at the end of
\* the same loop iteration, which reports it.
C16_WaitConsumesOnlyForeground ==
    [][/\ WaitConsumesForegroundOnly
       /\ \A p \in Pids :
             EndedInThisWait(p) =>
                 /\ procs'[p].state # "zombie" => pc = "poll"
                 /\ (pc = "poll" /\ ShellStep) =>
                       /\ Cardinality(ClosedAt(out', p)) = 1
                       /\ procs'[p].state = "reaped"
      ]_vars

\* the foreground wait has returned and a background child that ended
\* during it is still outstanding
C16_Witness ==
    /\ pc = "poll"
    /\ fgpid = 0
    /\ \E p \in Pids : EndedInThisWait(p)

\* C18: a poll reports every background child that has ended and has not
\* been reported, each exactly once, whatever the order in which they ended
\* and in which waitpid returns them: one more loop iteration is enough.
C18_EveryTerminatedIsReported ==
    /\ [](\A p \in Pids : procs[p].closed <= 1)
    /\ [][PollStep =>
             \A p \in Pids :
                 procs[p].state = "zombie" =>
                     /\ Cardinality(ClosedAt(out', p)) = 1
                     /\ procs'[p].state = "reaped"
                     /\ procs'[p].closed = 1
         ]_vars

\* one poll has reported two background children
C18_Witness ==
    /\ pc = "prompt"
    /\ \E p, q \in Pids :
          /\ p # q
          /\ ClosedAt(out, p) # {}
          /\ ClosedAt(out, q) # {}
          /\ procs[p].closed = 1
          /\ procs[q].closed = 1

\* the processes that run the loop of run_shell: the shell, numbered 0,
\* until it ends, and any child that has left handle_fork_exec
InShellLoop ==
    (IF pc \in {"exited", "crashed"} THEN {} ELSE {0})
    \cup {p \in Pids : procs[p].state = "looping"}

\* C19: a forked child never comes back into the loop of the shell: from
\* the child branch it becomes the program or it exits with status 1, and
\* the shell is the only process that runs the loop.
C19_ChildNeverReturns ==
    /\ InShellLoop \subseteq {0}
    /\ \A p \in Pids :
          /\ procs[p].state \in {"none", "forked", "running", "zombie", "reaped"}
          /\ procs[p].state = "running" => procs[p].image = "program"
          /\ FailedChild(p) => procs[p].status = W_EXITCODE(1)

\* one child has exited from the child branch, another one runs its
\* program, and the shell is in its loop
C19_Witness ==
    /\ InShellLoop = {0}
    /\ \E p, q \in Pids :
          /\ FailedChild(p)
          /\ procs[q].state = "running"
          /\ procs[q].image = "program"

\* C20: nothing of the parse is carried from one line to the next: every
\* prompt finds the foreground flag set and both file names empty, and a
\* command is launched with the arguments, the file names and the flag of
\* the line just read, and with nothing else.
C20_NoCarryOver ==
    [][/\ pc' = "prompt" =>
             /\ fg' = 1
             /\ input_filename' = ""
             /\ output_filename' = ""
       /\ \A p \in Pids :
             Launched(p) =>
                 /\ commands' = Parse(input').commands
                 /\ procs'[p].fg = Parse(input').fg
                 /\ procs'[p].input_filename = Parse(input').input_filename
                 /\ procs'[p].output_filename = Parse(input').output_filename
      ]_vars
====
